---- MODULE Spec2Model ----
(***************************************************************************)
(* Model of haliax/partitioning.py: the thread-local resource mapping and  *)
(* its axis_mapping context manager, auto_sharded, and the named_pjit      *)
(* wrapper with its two module-level caches (_eval_shape_cache and the     *)
(* compile_cache behind _named_pjit_cache).                                *)
(***************************************************************************)
EXTENDS Integers, Sequences, FiniteSets, TLC

\* ------------------------------------------------------------ bounds
\* deepest nesting of user-entered axis_mapping scopes per thread
MaxDepth == 2
\* number of calls of wrapped functions that may be started
MaxCalls == 2
\* largest size of a logical axis handed to the resolver
MaxSize == 4

\* ------------------------------------------------------------ domains
\* Threads of the process. ImportThread is the one that executed the module
\* body, i.e. that constructed _mapping_holder (partitioning.py:45).
Threads == {"main", "worker"}
ImportThread == "main"

LogicalNames == {"batch", "hidden"}
PhysicalNames == {"data", "model"}

\* PhysicalAxisSpec = Union[PhysicalAxis, Sequence[PhysicalAxis]]; NoneSpec is
\* Python's None (what dict.get(name, None) gives for an absent key).
StrSpec(n) == [kind |-> "str", names |-> <<n>>]
SeqSpec(s) == [kind |-> "seq", names |-> s]
NoneSpec == [kind |-> "none", names |-> <<>>]
PhysicalAxisSpec == {StrSpec(n) : n \in PhysicalNames}

\* A ResourceMapping (a dict) is a function on LogicalNames whose value is
\* NoneSpec for the keys the dict does not hold.
ResourceMapping == [LogicalNames -> PhysicalAxisSpec \cup {NoneSpec}]
EmptyDict == [k \in LogicalNames |-> NoneSpec]
Keys(d) == {k \in LogicalNames : d[k] # NoneSpec}

\* dict.update(other): entries of other replace those of d
DictUpdate(d, other) == [k \in LogicalNames |-> IF other[k] # NoneSpec THEN other[k] ELSE d[k]]

\* A value of the attribute thread_data.resource_mapping, or of an Optional
\* [ResourceMapping] parameter: None, a dict, or (for the attribute only) not
\* set at all in this thread, in which case reading it raises AttributeError.
Unset == [tag |-> "unset", d |-> EmptyDict]
None == [tag |-> "none", d |-> EmptyDict]
Some(d) == [tag |-> "dict", d |-> d]
\* Python truthiness of an Optional[dict]: None and {} are falsy
Truthy(v) == v.tag = "dict" /\ Keys(v.d) # {}
\* `v or {}`
OrEmpty(v) == IF Truthy(v) THEN v.d ELSE EmptyDict

\* Some concrete mappings used as inputs
MapA == [k \in LogicalNames |-> IF k = "batch" THEN StrSpec("data") ELSE NoneSpec]
MapB == [k \in LogicalNames |-> IF k = "batch" THEN StrSpec("model") ELSE NoneSpec]

\* ------------------------------------------------------------ values
\* Axis(name, size)
Axis(name, size) == [name |-> name, size |-> size]

\* jax shardings of a raw array: SingleDeviceSharding, or NamedSharding(mesh, pspec)
\* over the one active mesh
SingleDeviceSharding == [kind |-> "single", pspec |-> <<>>]
NamedSharding(pspec) == [kind |-> "named", pspec |-> pspec]

\* Array-like leaves of a pytree. A plain jax array has a shape and a sharding;
\* a NamedArray owns a raw array (shape, sharding) and its axes.
PlainArray(n) == [kind |-> "plain", axes |-> <<>>, shape |-> <<n>>, sharding |-> SingleDeviceSharding]
NamedArray(axes) == [kind |-> "named", axes |-> axes,
                     shape |-> [i \in 1..Len(axes) |-> axes[i].size],
                     sharding |-> SingleDeviceSharding]
is_named_array(x) == x.kind = "named"

Leaves == {PlainArray(2), PlainArray(3), NamedArray(<<Axis("batch", 2)>>)}
NamedLeaf == NamedArray(<<Axis("batch", 2)>>)

\* ------------------------------------------------------------ state
VARIABLES
    thread_data,   \* thread -> value of _mapping_holder.thread_data.resource_mapping
    old_mapping,   \* thread -> stack of the old_mapping locals of its active axis_mapping contexts
    scope_hist,    \* history: thread -> stack of the mapping that was current before each active scope was entered
    wrapped,       \* the callable f returned by the latest named_pjit(fn, ...), with what it closed over
    eval_shape_cache,   \* _eval_shape_cache: set of [key, value]
    named_pjit_cache,   \* the compile_cache of _named_pjit_cache: set of [key, value], value a pjit object
    jit_cache,     \* the executables the pjit objects have compiled, one per (pjit object, static, avals)
    compilations,  \* number of compilations the backend has run
    pc,            \* thread -> where it stands in a call of f
    frame,         \* thread -> the locals of its call of f
    ncalls,        \* number of calls of f started
    dispatched,    \* history: the calls that reached cached_pjitted_fun, with signature and executable
    last           \* the last operation, its inputs and its outcome

scopeVars == <<thread_data, old_mapping, scope_hist>>
cacheVars == <<eval_shape_cache, named_pjit_cache, jit_cache, compilations, dispatched>>
callVars == <<wrapped, pc, frame, ncalls>>
vars == <<thread_data, old_mapping, scope_hist, wrapped, eval_shape_cache, named_pjit_cache,
          jit_cache, compilations, pc, frame, ncalls, dispatched, last>>

\* no wrapped callable yet; no call in progress
NoWrapped == [fn |-> "none"]
NoFrame == [w |-> NoWrapped]

\* threading.local(): an attribute assigned in __init__ exists only in the
\* thread that ran __init__ (partitioning.py:40-42)
ResourceMappingHolder == [t \in Threads |-> IF t = ImportThread THEN None ELSE Unset]

Init ==
    /\ thread_data = ResourceMappingHolder
    /\ old_mapping = [t \in Threads |-> <<>>]
    /\ scope_hist = [t \in Threads |-> <<>>]
    /\ wrapped = NoWrapped
    /\ eval_shape_cache = {}
    /\ named_pjit_cache = {}
    /\ jit_cache = {}
    /\ compilations = 0
    /\ pc = [t \in Threads |-> "idle"]
    /\ frame = [t \in Threads |-> NoFrame]
    /\ ncalls = 0
    /\ dispatched = {}
    /\ last = [op |-> "init", t |-> ImportThread, err |-> "none"]

\* assignment to thread_data.resource_mapping in thread t: thread-local
SetResourceMapping_global(td, t, v) == [u \in Threads |-> v]
SetResourceMapping(td, t, v) == [td EXCEPT ![t] = v]

\* ------------------------------------------------------------ axis_mapping
\* partitioning.py:51-58: the dict installed by axis_mapping(mapping, merge=, **kwargs)
\* when old is the value read from the thread-local attribute
ScopedMapping_kwargs_first(mapping, merge, kwargs, old) ==
    LET m1 == IF Keys(kwargs) # {} THEN DictUpdate(mapping, kwargs) ELSE mapping
    IN  IF merge THEN DictUpdate(m1, OrEmpty(old)) ELSE m1
ScopedMapping_always_merge(mapping, merge, kwargs, old) ==
    LET m1 == DictUpdate(mapping, OrEmpty(old))
    IN  IF Keys(kwargs) # {} THEN DictUpdate(m1, kwargs) ELSE m1
ScopedMapping(mapping, merge, kwargs, old) ==
    LET m1 == IF merge THEN DictUpdate(mapping, OrEmpty(old)) ELSE mapping
    IN  IF Keys(kwargs) # {} THEN DictUpdate(m1, kwargs) ELSE m1

\* __enter__ of axis_mapping: lines 51-60 up to the yield
axis_mapping_enter(t, mapping, merge, kwargs) ==
    /\ pc[t] = "idle"
    /\ Len(old_mapping[t]) < MaxDepth
    /\ UNCHANGED <<cacheVars, callVars>>
    /\ IF thread_data[t] = Unset
       THEN \* line 53 raises AttributeError: nothing was assigned
            /\ last' = [op |-> "enter", t |-> t, err |-> "AttributeError"]
            /\ UNCHANGED <<thread_data, old_mapping, scope_hist>>
       ELSE /\ thread_data' = SetResourceMapping(thread_data, t,
                                 Some(ScopedMapping(mapping, merge, kwargs, thread_data[t])))
            /\ old_mapping' = [old_mapping EXCEPT ![t] = Append(@, thread_data[t])]
            /\ scope_hist' = [scope_hist EXCEPT ![t] = Append(@, thread_data[t])]
            /\ last' = [op |-> "enter", t |-> t, err |-> "none", mapping |-> mapping,
                        merge |-> merge, kwargs |-> kwargs, old |-> thread_data[t]]

\* the value assigned back when the scope is left with outcome how
RestoredMapping_no_finally(t, how) ==
    IF how = "return" THEN old_mapping[t][Len(old_mapping[t])] ELSE thread_data[t]
RestoredMapping(t, how) == old_mapping[t][Len(old_mapping[t])]

\* __exit__ of axis_mapping: the finally clause, line 64; how is "return" when
\* the body ended normally and "raise" when an exception left it
axis_mapping_exit(t, how) ==
    /\ pc[t] = "idle"
    /\ Len(old_mapping[t]) > 0
    /\ UNCHANGED <<cacheVars, callVars>>
    /\ thread_data' = SetResourceMapping(thread_data, t, RestoredMapping(t, how))
    /\ old_mapping' = [old_mapping EXCEPT ![t] = SubSeq(@, 1, Len(@) - 1)]
    /\ scope_hist' = [scope_hist EXCEPT ![t] = SubSeq(@, 1, Len(@) - 1)]
    /\ last' = [op |-> "exit", t |-> t, err |-> "none", how |-> how,
                before |-> scope_hist[t][Len(scope_hist[t])],
                inside |-> thread_data[t]]

\* ------------------------------------------------------------ resolver
\* the outcome of a lookup that raised AttributeError (the thread-local
\* attribute does not exist in the calling thread)
AttributeErrorSpec == [kind |-> "AttributeError", names |-> <<>>]

\* physical_axis_name(axis, mapping) called in thread t, lines 320-326:
\* `mapping or <thread-local>`, then None or dict.get(name, None)
physical_axis_name(t, axis, mapping) ==
    LET m == IF Truthy(mapping) THEN mapping ELSE thread_data[t]
    IN  IF m = Unset THEN AttributeErrorSpec
        ELSE IF m = None THEN NoneSpec
        ELSE m.d[axis.name]

\* pspec_for_axis(axis, mapping), lines 351-352: one entry per axis, in order
pspec_for_axis(t, axes, mapping) ==
    [i \in 1..Len(axes) |-> physical_axis_name(t, axes[i], mapping)]
Raised(pspec) == \E i \in 1..Len(pspec) : pspec[i] = AttributeErrorSpec

\* ------------------------------------------------------------ sharding
\* shard_with_axis_mapping(x, mapping), lines 99-136, on one leaf x, in thread t;
\* jit is _is_jit_context(), addressable is sharding.is_fully_addressable.
\* moved tells which primitive built the result
shard_with_axis_mapping_always_put(t, x, mapping, jit, addressable) ==
    IF ~is_named_array(x) THEN [err |-> "none", value |-> x, moved |-> "none"]
    ELSE LET pspec == pspec_for_axis(t, x.axes, mapping)
         IN  IF Raised(pspec) THEN [err |-> "AttributeError", value |-> x, moved |-> "none"]
             ELSE [err |-> "none", value |-> [x EXCEPT !.sharding = NamedSharding(pspec)],
                   moved |-> IF jit THEN "with_sharding_constraint" ELSE "device_put"]
shard_with_axis_mapping(t, x, mapping, jit, addressable) ==
    IF ~is_named_array(x) THEN [err |-> "none", value |-> x, moved |-> "none"]
    ELSE LET pspec == pspec_for_axis(t, x.axes, mapping)
             sharding == NamedSharding(pspec)
         IN  IF Raised(pspec) THEN [err |-> "AttributeError", value |-> x, moved |-> "none"]
             ELSE IF jit
                  THEN [err |-> "none", value |-> [x EXCEPT !.sharding = sharding],
                        moved |-> "with_sharding_constraint"]
             ELSE IF x.sharding = sharding THEN [err |-> "none", value |-> x, moved |-> "none"]
             ELSE IF addressable
                  THEN [err |-> "none", value |-> [x EXCEPT !.sharding = sharding],
                        moved |-> "device_put"]
             ELSE [err |-> "none", value |-> [x EXCEPT !.sharding = sharding],
                   moved |-> "make_array_from_callback"]

\* auto_sharded(x) in thread t, lines 77-82
auto_sharded(t, x, jit, addressable) ==
    /\ pc[t] = "idle"
    /\ UNCHANGED <<cacheVars, callVars>>
    /\ LET mapping == thread_data[t]
           r == IF mapping = Unset THEN [err |-> "AttributeError", value |-> x, moved |-> "none"]
                ELSE IF mapping = None THEN [err |-> "none", value |-> x, moved |-> "none"]
                ELSE shard_with_axis_mapping(t, x, mapping, jit, addressable)
       IN  last' = [op |-> "auto_sharded", t |-> t, err |-> r.err, x |-> x,
                    value |-> r.value, moved |-> r.moved]
    /\ UNCHANGED <<thread_data, old_mapping, scope_hist>>

\* ------------------------------------------------------------ caches
\* A cache (a dict, or the lru_cache behind equinox's compile_cache) is a set
\* of [key, value] entries with at most one entry per key.
Has(cache, key) == \E e \in cache : e.key = key
Get(cache, key) == (CHOOSE e \in cache : e.key = key).value
Put(cache, key, value) == {e \in cache : e.key # key} \cup {[key |-> key, value |-> value]}

\* ------------------------------------------------------------ callables
\* The callables handed to named_pjit. f1 and f2 are two distinct functions
\* with the same __name__ and __qualname__; none of them holds arrays.
Fns == {"f1", "f2", "g"}
\* a callable that holds an array: a module with one weight
Layer == "layer"
get_fun_names(fn) == IF fn \in {"f1", "f2"} THEN <<"f", "f">> ELSE <<fn, fn>>
\* static (non-array) argument values
Configs == {"relu", "gelu"}

\* hashable_partition(tree, is_jax_array_like) of one argument leaf x: the
\* dynamic part is the raw array (here its shape and sharding), the static part
\* is what is left of the tree: for a NamedArray its axes, for a plain array an
\* empty slot.
DynamicOf(x) == [shape |-> x.shape, sharding |-> x.sharding]
\* line 229: dynamic_fun of hashable_partition(fn, is_jax_array_like), the
\* array leaf the callable holds, or None
dynamic_fun(fn) ==
    IF fn = Layer THEN PlainArray(2) ELSE [kind |-> "none", axes |-> <<>>, shape |-> <<>>]
StaticOf(x) == [kind |-> x.kind, axes |-> x.axes]

\* what a callable returns for arguments (cfg, x), as the shape skeleton
\* jax.eval_shape computes: f1 and g return x, f2 names the first dimension of x
NoShape == [kind |-> "none", axes |-> <<>>, shape |-> <<>>]
ShapeSkeleton(x) == [kind |-> x.kind, axes |-> x.axes, shape |-> x.shape]
filter_eval_shape(fn, cfg, x) ==
    IF fn = "f2"
    THEN ShapeSkeleton(NamedArray(<<Axis("batch", x.shape[1])>>))
    ELSE ShapeSkeleton(x)

\* ------------------------------------------------------------ infer_resource_partitions
NoneResource == [kind |-> "none", pspec |-> <<>>, axes |-> <<>>]
\* infer_resource_partitions(tree, resource_mapping) on one leaf, in thread t,
\* lines 147-171
infer_resource_partitions(t, node, resource_mapping) ==
    LET m1 == IF resource_mapping = None THEN thread_data[t] ELSE resource_mapping
    IN  IF m1 = Unset THEN [err |-> "AttributeError", res |-> NoneResource]
        ELSE IF m1 = None THEN [err |-> "ValueError", res |-> NoneResource]
        ELSE IF is_named_array(node)
             THEN LET pspec == pspec_for_axis(t, node.axes, m1)
                  IN  IF Raised(pspec) THEN [err |-> "AttributeError", res |-> NoneResource]
                      ELSE [err |-> "none",
                            res |-> [kind |-> "named", pspec |-> pspec, axes |-> node.axes]]
        ELSE IF "sharding" \in DOMAIN node /\ node.sharding # SingleDeviceSharding
             THEN [err |-> "none",
                   res |-> [kind |-> "sharding", pspec |-> node.sharding.pspec, axes |-> <<>>]]
        ELSE [err |-> "none", res |-> NoneResource]

\* ------------------------------------------------------------ named_pjit
\* the callable f that named_pjit returns (line 266) with the names it closes
\* over as resolved at lines 214-221; scoped records that none of the three
\* mappings was given by the caller
NoneGiven == [axis |-> None, in |-> None, out |-> None]

\* donate_args: None, a bool, or a tuple of flags; donate_kwargs: None or a dict
\* from keyword to flag, given by its keys and the keys whose flag is True
DonateArgsNone == [tag |-> "none", flags |-> <<>>]
DonateArgsBool(b) == [tag |-> "bool", flags |-> <<b>>]
DonateArgsTuple(flags) == [tag |-> "tuple", flags |-> flags]
DonateKwargsNone == [tag |-> "none", keys |-> {}, donated |-> {}]
DonateKwargs(keys, donated) == [tag |-> "dict", keys |-> keys, donated |-> donated]

Closure(fn, axis_resources, in_axis_resources, out_axis_resources, scoped) ==
    [fn |-> fn, axis_resources |-> axis_resources, in_axis_resources |-> in_axis_resources,
     out_axis_resources |-> out_axis_resources, scoped |-> scoped,
     donate_args |-> DonateArgsNone, donate_kwargs |-> DonateKwargsNone]
\* the same closure when named_pjit was given donate_args= and donate_kwargs=
WithDonation(f, donate_args, donate_kwargs) ==
    [f EXCEPT !.donate_args = donate_args, !.donate_kwargs = donate_kwargs]

\* named_pjit(fn, axis_resources, in_axis_resources=, out_axis_resources=)
\* called in thread t, lines 214-229 and 266: resolves the three mappings and
\* returns f, which closes over them
named_pjit(t, fn, axis_resources, in_axis_resources, out_axis_resources) ==
    /\ pc[t] = "idle"
    /\ UNCHANGED <<scopeVars, cacheVars, pc, frame, ncalls>>
    /\ LET given == [axis |-> axis_resources, in |-> in_axis_resources,
                     out |-> out_axis_resources]
           a1 == IF axis_resources = None THEN thread_data[t] ELSE axis_resources
           in1 == IF in_axis_resources = None THEN a1 ELSE in_axis_resources
           out1 == IF out_axis_resources = None THEN a1 ELSE out_axis_resources
       IN  IF a1 = Unset
           THEN \* line 215 raises AttributeError
                /\ last' = [op |-> "named_pjit", t |-> t, err |-> "AttributeError", given |-> given]
                /\ UNCHANGED wrapped
           ELSE IF a1 = None /\ (in1 = None \/ out1 = None)
           THEN \* line 224
                /\ last' = [op |-> "named_pjit", t |-> t, err |-> "ValueError", given |-> given]
                /\ UNCHANGED wrapped
           ELSE /\ wrapped' = Closure(fn, a1, in1, out1, given = NoneGiven)
                /\ last' = [op |-> "named_pjit", t |-> t, err |-> "none", given |-> given]

NoFun == [gen |-> 0]

\* The keyword arguments of a call: a dict from keyword to an array leaf,
\* AbsentArg for a keyword the call does not pass
KwNames == {"y"}
AbsentArg == [kind |-> "absent", axes |-> <<>>, shape |-> <<>>]
NoKwargs == [k \in KwNames |-> AbsentArg]
KwKeys(kwargs) == {k \in KwNames : kwargs[k] # AbsentArg}
\* the number of positional arguments of a call f(cfg, x, **kwargs)
NArgs == 2

\* A dynamic tree (dynamic_fun, (args, kwargs)) holds, per array leaf of the
\* callable and of the arguments, the leaf or None (NoLeaf). cfg is static,
\* so the leaves are the callable's own, x and the keyword arguments.
NoLeaf == [kind |-> "none", axes |-> <<>>, shape |-> <<>>]
DynamicTree(fn, x, kwargs) ==
    [fun |-> dynamic_fun(fn), x |-> x,
     kwargs |-> [k \in KwNames |-> IF kwargs[k] = AbsentArg THEN NoLeaf ELSE kwargs[k]]]
\* line 249: jax.tree_util.tree_map(lambda _: None, dynamic)
AllNone(dynamic) == [fun |-> NoLeaf, x |-> NoLeaf, kwargs |-> [k \in KwNames |-> NoLeaf]]

\* lines 237-246: the flags per positional and per keyword argument
DonateFlags_missing_donated(donate_args, donate_kwargs, kwargs) ==
    [dargs |-> IF donate_args.tag = "none" THEN [i \in 1..NArgs |-> FALSE]
               ELSE IF donate_args.tag = "bool" THEN [i \in 1..NArgs |-> donate_args.flags[1]]
               ELSE donate_args.flags,
     dkwargs |-> [k \in KwNames |-> k \in KwKeys(kwargs) /\ donate_kwargs.tag = "dict"
                                    /\ (k \in donate_kwargs.keys => k \in donate_kwargs.donated)]]
DonateFlags(donate_args, donate_kwargs, kwargs) ==
    [dargs |-> IF donate_args.tag = "none" THEN [i \in 1..NArgs |-> FALSE]
               ELSE IF donate_args.tag = "bool" THEN [i \in 1..NArgs |-> donate_args.flags[1]]
               ELSE donate_args.flags,
     dkwargs |-> LET given == donate_kwargs.tag = "dict" /\ donate_kwargs.keys # {}
                 IN  [k \in KwNames |-> k \in KwKeys(kwargs) /\ given
                                        /\ k \in donate_kwargs.keys
                                        /\ k \in donate_kwargs.donated]]

\* lines 236-250: dynamic_donated and dynamic_reserved. eqx.partition raises
\* ValueError when the tuple of flags is not a prefix of the tuple of arguments
DonationPartition_donates_fun(w, x, kwargs) ==
    LET dynamic == DynamicTree(w.fn, x, kwargs)
        flags == DonateFlags(w.donate_args, w.donate_kwargs, kwargs)
    IN  IF w.donate_args.tag = "none" /\ w.donate_kwargs.tag = "none"
        THEN [err |-> "none", donated |-> AllNone(dynamic), reserved |-> dynamic]
        ELSE IF Len(flags.dargs) # NArgs
        THEN [err |-> "ValueError", donated |-> AllNone(dynamic), reserved |-> AllNone(dynamic)]
        ELSE [err |-> "none",
              donated |-> [fun |-> IF flags.dargs[2] THEN dynamic.fun ELSE NoLeaf,
                           x |-> IF flags.dargs[2] THEN dynamic.x ELSE NoLeaf,
                           kwargs |-> [k \in KwNames |-> IF flags.dkwargs[k]
                                                         THEN dynamic.kwargs[k] ELSE NoLeaf]],
              reserved |-> [fun |-> IF flags.dargs[2] THEN NoLeaf ELSE dynamic.fun,
                            x |-> IF flags.dargs[2] THEN NoLeaf ELSE dynamic.x,
                            kwargs |-> [k \in KwNames |-> IF flags.dkwargs[k]
                                                          THEN NoLeaf ELSE dynamic.kwargs[k]]]]
DonationPartition(w, x, kwargs) ==
    LET dynamic == DynamicTree(w.fn, x, kwargs)
        flags == DonateFlags(w.donate_args, w.donate_kwargs, kwargs)
    IN  IF w.donate_args.tag = "none" /\ w.donate_kwargs.tag = "none"
        THEN [err |-> "none", donated |-> AllNone(dynamic), reserved |-> dynamic]
        ELSE IF Len(flags.dargs) # NArgs
        THEN [err |-> "ValueError", donated |-> AllNone(dynamic), reserved |-> AllNone(dynamic)]
        ELSE [err |-> "none",
              donated |-> [fun |-> NoLeaf,
                           x |-> IF flags.dargs[2] THEN dynamic.x ELSE NoLeaf,
                           kwargs |-> [k \in KwNames |-> IF flags.dkwargs[k]
                                                         THEN dynamic.kwargs[k] ELSE NoLeaf]],
              reserved |-> [fun |-> dynamic.fun,
                            x |-> IF flags.dargs[2] THEN NoLeaf ELSE dynamic.x,
                            kwargs |-> [k \in KwNames |-> IF flags.dkwargs[k]
                                                          THEN NoLeaf ELSE dynamic.kwargs[k]]]]

\* eqx.combine(dynamic_donated, dynamic_reserved), line 287: per leaf, the
\* first of the two that is not None
eqx_combine(donated, reserved) ==
    [fun |-> IF donated.fun # NoLeaf THEN donated.fun ELSE reserved.fun,
     x |-> IF donated.x # NoLeaf THEN donated.x ELSE reserved.x,
     kwargs |-> [k \in KwNames |-> IF donated.kwargs[k] # NoLeaf THEN donated.kwargs[k]
                                                                ELSE reserved.kwargs[k]]]

\* a call f(cfg, x, **kwargs) of the wrapped callable f starts in thread t:
\* lines 233-252
f_call(t, f, cfg, x, kwargs) ==
    /\ pc[t] = "idle"
    /\ f # NoWrapped
    /\ ncalls < MaxCalls
    /\ ncalls' = ncalls + 1
    /\ LET part == DonationPartition(f, x, kwargs)
       IN  IF part.err # "none"
           THEN /\ last' = [op |-> "return", t |-> t, err |-> part.err, reached |-> "partition",
                            caller |-> thread_data[t],
                            call |-> [w |-> f, cfg |-> cfg, x |-> x, kwargs |-> kwargs],
                            output_shape |-> NoShape]
                /\ UNCHANGED <<pc, frame>>
           ELSE /\ frame' = [frame EXCEPT ![t] = [w |-> f, cfg |-> cfg, x |-> x,
                                                  kwargs |-> kwargs,
                                                  dynamic_donated |-> part.donated,
                                                  dynamic_reserved |-> part.reserved,
                                                  dynamic |-> AllNone(part.reserved),
                                                  caller |-> thread_data[t],
                                                  output_shape |-> NoShape,
                                                  in_resources |-> NoneResource,
                                                  out_resources |-> NoneResource,
                                                  fun |-> NoFun, err |-> "none"]]
                /\ pc' = [pc EXCEPT ![t] = "eval_shape"]
                /\ UNCHANGED last
    /\ UNCHANGED <<scopeVars, cacheVars, wrapped>>

\* the callable and the arguments of the call in frame fr
CallOf(fr) == [w |-> fr.w, cfg |-> fr.cfg, x |-> fr.x, kwargs |-> fr.kwargs]

\* the call ends in thread t by raising err before any scope was entered
Raise(t, err) ==
    /\ pc' = [pc EXCEPT ![t] = "idle"]
    /\ frame' = [frame EXCEPT ![t] = NoFrame]
    /\ last' = [op |-> "return", t |-> t, err |-> err, reached |-> pc[t],
                caller |-> frame[t].caller,
                call |-> CallOf(frame[t]), output_shape |-> frame[t].output_shape]

\* ------------------------------------------------------------ _cached_filter_eval_shape
\* the key of _eval_shape_cache, line 311: the static half of
\* hashable_partition((fun, args, kwargs), is_jax_array_like)
StaticOfKwargs(kwargs) ==
    [k \in KwNames |-> IF kwargs[k] = AbsentArg THEN [kind |-> "absent", axes |-> <<>>]
                                               ELSE StaticOf(kwargs[k])]
EvalShapeKey(fn, cfg, x, kwargs) == <<fn, cfg, StaticOf(x), StaticOfKwargs(kwargs)>>

\* line 312: `static not in _eval_shape_cache`
cached_filter_eval_shape_lookup(t) ==
    /\ pc[t] = "eval_shape"
    /\ LET key == EvalShapeKey(frame[t].w.fn, frame[t].cfg, frame[t].x, frame[t].kwargs)
       IN  pc' = [pc EXCEPT ![t] = IF Has(eval_shape_cache, key)
                                   THEN "eval_shape_return" ELSE "eval_shape_store"]
    /\ UNCHANGED <<scopeVars, cacheVars, wrapped, frame, ncalls, last>>

\* line 313: `_eval_shape_cache[static] = filter_eval_shape(fun, *args, **kwargs)`
cached_filter_eval_shape_store(t) ==
    /\ pc[t] = "eval_shape_store"
    /\ LET key == EvalShapeKey(frame[t].w.fn, frame[t].cfg, frame[t].x, frame[t].kwargs)
       IN  eval_shape_cache' = Put(eval_shape_cache, key,
                                   filter_eval_shape(frame[t].w.fn, frame[t].cfg, frame[t].x))
    /\ pc' = [pc EXCEPT ![t] = "eval_shape_return"]
    /\ UNCHANGED <<scopeVars, named_pjit_cache, jit_cache, compilations, dispatched,
                   wrapped, frame, ncalls, last>>

\* line 315: `return _eval_shape_cache[static]`, assigned to output_shape at line 254
cached_filter_eval_shape_return(t) ==
    /\ pc[t] = "eval_shape_return"
    /\ LET key == EvalShapeKey(frame[t].w.fn, frame[t].cfg, frame[t].x, frame[t].kwargs)
       IN  frame' = [frame EXCEPT ![t].output_shape = Get(eval_shape_cache, key)]
    /\ pc' = [pc EXCEPT ![t] = "infer"]
    /\ UNCHANGED <<scopeVars, cacheVars, wrapped, ncalls, last>>

\* ------------------------------------------------------------ f, continued
\* infer_resource_partitions on a dynamic tree: the same tree of resources, or
\* the exception a leaf raised
InferDynamic(t, tree, resource_mapping) ==
    LET rf == infer_resource_partitions(t, tree.fun, resource_mapping)
        rx == infer_resource_partitions(t, tree.x, resource_mapping)
        rk == [k \in KwNames |-> infer_resource_partitions(t, tree.kwargs[k], resource_mapping)]
        errs == ({rf.err, rx.err} \cup {rk[k].err : k \in KwNames}) \ {"none"}
    IN  [err |-> IF errs = {} THEN "none" ELSE CHOOSE e \in errs : TRUE,
         res |-> [fun |-> rf.res, x |-> rx.res, kwargs |-> [k \in KwNames |-> rk[k].res]]]

\* lines 256-257: in_resources and out_resources from the mappings f closed over
f_infer_resources(t) ==
    /\ pc[t] = "infer"
    /\ LET donated == InferDynamic(t, frame[t].dynamic_donated, frame[t].w.in_axis_resources)
           reserved == InferDynamic(t, frame[t].dynamic_reserved, frame[t].w.in_axis_resources)
           in == [err |-> IF donated.err # "none" THEN donated.err ELSE reserved.err,
                  res |-> [donated |-> donated.res, reserved |-> reserved.res]]
           out == infer_resource_partitions(t, frame[t].output_shape,
                                            frame[t].w.out_axis_resources)
       IN  IF in.err # "none" THEN Raise(t, in.err)
           ELSE IF out.err # "none" THEN Raise(t, out.err)
           ELSE /\ frame' = [frame EXCEPT ![t].in_resources = in.res,
                                          ![t].out_resources = out.res]
                /\ pc' = [pc EXCEPT ![t] = "with"]
                /\ UNCHANGED last
    /\ UNCHANGED <<scopeVars, cacheVars, wrapped, ncalls>>

\* line 262: `with axis_mapping(axis_resources or {})`
f_axis_mapping_enter(t) ==
    /\ pc[t] = "with"
    /\ IF thread_data[t] = Unset
       THEN \* line 53 raises AttributeError
            /\ Raise(t, "AttributeError")
            /\ UNCHANGED scopeVars
       ELSE /\ thread_data' = SetResourceMapping(thread_data, t,
                                 Some(ScopedMapping(OrEmpty(frame[t].w.axis_resources), FALSE,
                                                    EmptyDict, thread_data[t])))
            /\ old_mapping' = [old_mapping EXCEPT ![t] = Append(@, thread_data[t])]
            /\ scope_hist' = [scope_hist EXCEPT ![t] = Append(@, thread_data[t])]
            /\ pc' = [pc EXCEPT ![t] = "pjit_cache"]
            /\ last' = [op |-> "with", t |-> t, err |-> "none"]
            /\ UNCHANGED frame
    /\ UNCHANGED <<cacheVars, wrapped, ncalls>>

\* the key under which compile_cache keeps the result of
\* _named_pjit_cache(get_fun_names(fn), **my_pjit_args), lines 259-263
NamedPjitKey_by_identity(fn, in_resources, out_resources) ==
    [fun_names |-> <<fn, fn>>, in_axis_resources |-> in_resources,
     out_axis_resources |-> out_resources]
NamedPjitKey(fn, in_resources, out_resources) ==
    [fun_names |-> get_fun_names(fn), in_axis_resources |-> in_resources,
     out_axis_resources |-> out_resources]

\* whether compile_cache already holds the key
compile_cache_hit_never(cache, key) == FALSE
compile_cache_hit(cache, key) == Has(cache, key)

\* line 263: the cached pjit(fun_wrapped, ...) object, built at lines 286-300
\* when the key is new. A pjit object is named by its key and by how many
\* objects had been built for that key before it
\* (one step: line 53 raises in every thread but the importing one, so no two
\* calls are ever inside the with block at once)
named_pjit_cache_lookup(t) ==
    /\ pc[t] = "pjit_cache"
    /\ LET key == NamedPjitKey(frame[t].w.fn, frame[t].in_resources, frame[t].out_resources)
           hit == compile_cache_hit(named_pjit_cache, key)
           fun == IF hit THEN Get(named_pjit_cache, key)
                  ELSE [key |-> key,
                        gen |-> IF Has(named_pjit_cache, key)
                                THEN Get(named_pjit_cache, key).gen + 1 ELSE 1]
       IN  /\ named_pjit_cache' = IF hit THEN named_pjit_cache
                                  ELSE Put(named_pjit_cache, key, fun)
           /\ frame' = [frame EXCEPT ![t].fun = fun]
    /\ pc' = [pc EXCEPT ![t] = "dispatch"]
    /\ UNCHANGED <<scopeVars, eval_shape_cache, jit_cache, compilations, dispatched,
                   wrapped, ncalls, last>>

\* the static signature of the call in frame fr: function identity, static
\* configuration, argument structure and shapes, resolved placements
Signature(fr) ==
    [fn |-> fr.w.fn, cfg |-> fr.cfg, static |-> <<StaticOf(fr.x), StaticOfKwargs(fr.kwargs)>>,
     shape |-> <<fr.x.shape, [k \in KwNames |-> fr.kwargs[k].shape]>>,
     in_resources |-> fr.in_resources, out_resources |-> fr.out_resources]

\* the shapes of the array leaves of a dynamic tree
ShapesOf(tree) ==
    [fun |-> tree.fun.shape,
     x |-> IF tree.x = NoLeaf THEN <<>> ELSE DynamicOf(tree.x).shape,
     kwargs |-> [k \in KwNames |-> tree.kwargs[k].shape]]

\* the executable a pjit object runs for a call: pjit (static_argnums=2) keeps
\* one per value of the static argument (static_fun, static_argspec) and per
\* shapes of the dynamic arguments
Executable(fr) ==
    [fun |-> fr.fun, static |-> <<fr.w.fn, fr.cfg, StaticOf(fr.x), StaticOfKwargs(fr.kwargs)>>,
     shape |-> [donated |-> ShapesOf(fr.dynamic_donated),
                reserved |-> ShapesOf(fr.dynamic_reserved)]]

\* line 264: cached_pjitted_fun(dynamic_donated, dynamic_reserved, static). It
\* compiles when it has no executable for the call, then runs it: fun_wrapped
\* (lines 286-294) recombines the two dynamic trees into dynamic and calls the
\* callable; outcome is "none", or the error the backend raised while running
cached_pjitted_fun(t, outcome) ==
    /\ pc[t] = "dispatch"
    /\ LET exe == Executable(frame[t])
           sig == Signature(frame[t])
           new == exe \notin jit_cache
       IN  /\ jit_cache' = jit_cache \cup {exe}
           /\ compilations' = IF new THEN compilations + 1 ELSE compilations
           /\ dispatched' = dispatched \cup {[sig |-> sig, exe |-> exe]}
           /\ last' = [op |-> "dispatch", t |-> t, err |-> outcome, sig |-> sig, exe |-> exe,
                       seen |-> sig \in {d.sig : d \in dispatched},
                       compiled |-> IF new THEN 1 ELSE 0]
    /\ frame' = [frame EXCEPT ![t].err = outcome,
                              ![t].dynamic = eqx_combine(frame[t].dynamic_donated,
                                                         frame[t].dynamic_reserved)]
    /\ pc' = [pc EXCEPT ![t] = "finally"]
    /\ UNCHANGED <<scopeVars, eval_shape_cache, named_pjit_cache, wrapped, ncalls>>

\* leaving the with block of line 262, by return or by the backend's error:
\* line 64, then f returns or raises
f_axis_mapping_exit(t) ==
    /\ pc[t] = "finally"
    /\ LET how == IF frame[t].err = "none" THEN "return" ELSE "raise"
       IN  thread_data' = SetResourceMapping(thread_data, t, RestoredMapping(t, how))
    /\ old_mapping' = [old_mapping EXCEPT ![t] = SubSeq(@, 1, Len(@) - 1)]
    /\ scope_hist' = [scope_hist EXCEPT ![t] = SubSeq(@, 1, Len(@) - 1)]
    /\ pc' = [pc EXCEPT ![t] = "idle"]
    /\ frame' = [frame EXCEPT ![t] = NoFrame]
    /\ last' = [op |-> "return", t |-> t, err |-> frame[t].err, reached |-> pc[t],
                before |-> scope_hist[t][Len(scope_hist[t])], caller |-> frame[t].caller,
                call |-> CallOf(frame[t]), output_shape |-> frame[t].output_shape]
    /\ UNCHANGED <<cacheVars, wrapped, ncalls>>

\* the steps of a call of f in thread t
f_step(t) ==
    \/ cached_filter_eval_shape_lookup(t)
    \/ cached_filter_eval_shape_store(t)
    \/ cached_filter_eval_shape_return(t)
    \/ f_infer_resources(t)
    \/ f_axis_mapping_enter(t)
    \/ named_pjit_cache_lookup(t)
    \/ \E outcome \in {"none", "BackendExecutionError"} : cached_pjitted_fun(t, outcome)
    \/ f_axis_mapping_exit(t)

Next ==
    \E t \in Threads :
        \/ \E x \in Leaves, jit \in BOOLEAN, addressable \in BOOLEAN :
               auto_sharded(t, x, jit, addressable)
        \/ \E mapping \in ResourceMapping, merge \in BOOLEAN, kwargs \in ResourceMapping :
               axis_mapping_enter(t, mapping, merge, kwargs)
        \/ \E how \in {"return", "raise"} : axis_mapping_exit(t, how)

Spec == Init /\ [][Next]_vars

\* Wrapping and calling under scopes: how named_pjit resolves its mappings.
\* Both threads wrap (the other thread without axis_resources); the calls are
\* the import thread's.
NextWrap ==
    \E t \in Threads :
        \/ \E mapping \in {MapA, MapB} : axis_mapping_enter(t, mapping, FALSE, EmptyDict)
        \/ \E how \in {"return", "raise"} : axis_mapping_exit(t, how)
        \/ \E axis_resources \in (IF t = ImportThread THEN {None, Some(MapA)} ELSE {None}),
              in_axis_resources \in {None, Some(MapB)} :
               \E out_axis_resources \in (IF t = ImportThread THEN {None, Some(MapB)}
                                                               ELSE {in_axis_resources}) :
                   named_pjit(t, "f1", axis_resources, in_axis_resources, out_axis_resources)
        \/ f_call(t, IF t = ImportThread THEN wrapped ELSE NoWrapped, "relu", NamedLeaf, NoKwargs)
        \/ f_step(t)

SpecWrap == Init /\ [][NextWrap]_vars

\* Calls of callables wrapped with an explicit axis_resources: the two caches.
\* named_pjit(fn, m) returns the same closure in every state and thread and
\* touches no shared state, so the callables are given here rather than built.
\* The import thread calls every callable; the other thread calls f1 only.
ExplicitlyWrapped(fns, mappings) ==
    {Closure(fn, Some(m), Some(m), Some(m), FALSE) : fn \in fns, m \in mappings}
NextCache ==
    \E t \in Threads :
        \/ \E f \in (IF t = ImportThread THEN ExplicitlyWrapped(Fns, {MapA, MapB})
                                         ELSE ExplicitlyWrapped({"f1"}, {MapA})),
              cfg \in (IF t = ImportThread THEN Configs ELSE {"relu"}), x \in Leaves :
               f_call(t, f, cfg, x, NoKwargs)
        \/ f_step(t)

SpecCache == Init /\ [][NextCache]_vars

\* Calls of a callable wrapped with donation flags, with and without a keyword
\* argument, the callable holding an array or not. The calls are the import
\* thread's.
DonateArgsInputs ==
    {DonateArgsNone, DonateArgsBool(TRUE), DonateArgsTuple(<<FALSE>>),
     DonateArgsTuple(<<FALSE, TRUE>>), DonateArgsTuple(<<FALSE, FALSE, TRUE>>)}
DonateKwargsInputs ==
    {DonateKwargsNone, DonateKwargs({}, {}), DonateKwargs({"y"}, {"y"}),
     DonateKwargs({"y"}, {}), DonateKwargs({"z"}, {"z"})}
KwargsInputs == {NoKwargs, [k \in KwNames |-> PlainArray(3)]}
\* the flags the callable that holds an array is wrapped with
LayerDonateArgsInputs == {DonateArgsNone, DonateArgsBool(TRUE)}
LayerDonateKwargsInputs == {DonateKwargsNone, DonateKwargs({"y"}, {})}
NextDonate ==
    \E t \in Threads :
        \/ \E donate_args \in DonateArgsInputs, donate_kwargs \in DonateKwargsInputs,
              x \in {NamedLeaf, PlainArray(2)}, kwargs \in KwargsInputs :
               f_call(t, IF t = ImportThread
                         THEN WithDonation(Closure("f1", Some(MapA), Some(MapA), Some(MapA), FALSE),
                                           donate_args, donate_kwargs)
                         ELSE NoWrapped,
                      "relu", x, kwargs)
        \/ \E donate_args \in LayerDonateArgsInputs, donate_kwargs \in LayerDonateKwargsInputs,
              kwargs \in KwargsInputs \ {NoKwargs} :
               f_call(t, IF t = ImportThread
                         THEN WithDonation(Closure(Layer, Some(MapA), Some(MapA), Some(MapA), FALSE),
                                           donate_args, donate_kwargs)
                         ELSE NoWrapped,
                      "relu", NamedLeaf, kwargs)
        \/ f_step(t)

SpecDonate == Init /\ [][NextDonate]_vars

\* ------------------------------------------------------------ mesh and sizes
\* jax's thread_resources.env as physical_axis_size reads it (lines 335-338):
\* NoEnv when reading env.shape raises AttributeError, else the shape of the
\* active mesh, a dict from physical axis name to size. EmptyMesh is the shape
\* outside every mesh context.
NoEnv == [kind |-> "noenv", shape |-> <<>>]
MeshShape(shape) == [kind |-> "mesh", shape |-> shape]
EmptyMesh == MeshShape(<<>>)
Envs == {NoEnv, EmptyMesh,
         MeshShape([n \in PhysicalNames |-> IF n = "data" THEN 2 ELSE 4]),
         MeshShape([n \in PhysicalNames |-> 1])}

\* math.prod of the mesh sizes of a sequence of physical axis names
RECURSIVE prod(_, _)
prod(mesh_shape, names) ==
    IF names = <<>> THEN 1
    ELSE mesh_shape[Head(names)] * prod(mesh_shape, Tail(names))

\* an Optional[int] result, or the exception that ended the call
NoneSize == [err |-> "none", isnone |-> TRUE, size |-> 0]
SizeOf(n) == [err |-> "none", isnone |-> FALSE, size |-> n]
SizeError(e) == [err |-> e, isnone |-> TRUE, size |-> 0]

\* physical_axis_size(axis, mapping) in thread t under env, lines 335-346
physical_axis_size(t, axis, mapping, env) ==
    IF env = NoEnv THEN SizeError("ValueError")
    ELSE LET name == physical_axis_name(t, axis, mapping)
         IN  IF name = AttributeErrorSpec THEN SizeError("AttributeError")
             ELSE IF name = NoneSpec THEN NoneSize
             ELSE IF \E i \in 1..Len(name.names) : name.names[i] \notin DOMAIN env.shape
                  THEN SizeError("KeyError")
             ELSE SizeOf(prod(env.shape, name.names))

\* round_axis_for_partitioning(axis, mapping) in thread t under env, lines 357-362
round_axis_for_partitioning(t, axis, mapping, env) ==
    LET size == physical_axis_size(t, axis, mapping, env)
    IN  IF size.err # "none" THEN [err |-> size.err, value |-> axis]
        ELSE IF size.isnone THEN [err |-> "none", value |-> axis]
        ELSE [err |-> "none",
              value |-> Axis(axis.name, ((axis.size + size.size - 1) \div size.size) * size.size)]

\* ------------------------------------------------------------ resolver calls
\* the mappings and axes handed to the resolver functions
MapSeq == [k \in LogicalNames |-> IF k = "batch" THEN SeqSpec(<<"data", "model">>)
                                                 ELSE StrSpec("model")]
SuppliedMappings == {None, Some(EmptyDict), Some(MapA), Some(MapSeq)}
Axes == {Axis(n, s) : n \in LogicalNames, s \in 1..MaxSize}
AxisSelections == {<<>>} \cup {<<a>> : a \in {Axis(n, 2) : n \in LogicalNames}}
                  \cup {<<Axis("batch", 2), Axis("hidden", 3)>>,
                        <<Axis("hidden", 3), Axis("batch", 2)>>}

\* a call of physical_axis_name(axis, mapping) from thread t
physical_axis_name_call(t, axis, mapping) ==
    /\ pc[t] = "idle"
    /\ LET r == physical_axis_name(t, axis, mapping)
       IN  last' = [op |-> "physical_axis_name", t |-> t,
                    err |-> IF r = AttributeErrorSpec THEN "AttributeError" ELSE "none",
                    axis |-> axis, mapping |-> mapping, cur |-> thread_data[t], value |-> r]
    /\ UNCHANGED <<scopeVars, cacheVars, callVars>>

\* a call of pspec_for_axis(axis, mapping) from thread t
pspec_for_axis_call(t, axes, mapping) ==
    /\ pc[t] = "idle"
    /\ LET r == pspec_for_axis(t, axes, mapping)
       IN  last' = [op |-> "pspec_for_axis", t |-> t,
                    err |-> IF Raised(r) THEN "AttributeError" ELSE "none",
                    axes |-> axes, mapping |-> mapping, cur |-> thread_data[t], value |-> r]
    /\ UNCHANGED <<scopeVars, cacheVars, callVars>>

\* a call of physical_axis_size(axis, mapping) from thread t under env
physical_axis_size_call(t, axis, mapping, env) ==
    /\ pc[t] = "idle"
    /\ LET r == physical_axis_size(t, axis, mapping, env)
       IN  last' = [op |-> "physical_axis_size", t |-> t, err |-> r.err,
                    axis |-> axis, mapping |-> mapping, cur |-> thread_data[t],
                    env |-> env, value |-> r]
    /\ UNCHANGED <<scopeVars, cacheVars, callVars>>

\* a call of round_axis_for_partitioning(axis, mapping) from thread t under env
round_axis_for_partitioning_call(t, axis, mapping, env) ==
    /\ pc[t] = "idle"
    /\ LET r == round_axis_for_partitioning(t, axis, mapping, env)
       IN  last' = [op |-> "round_axis_for_partitioning", t |-> t, err |-> r.err,
                    axis |-> axis, mapping |-> mapping, cur |-> thread_data[t],
                    env |-> env, value |-> r.value]
    /\ UNCHANGED <<scopeVars, cacheVars, callVars>>

\* the values handed to shard_with_axis_mapping: the leaves, a NamedArray of two
\* axes, and one whose raw array is already sharded over "data"
ShardLeaves ==
    Leaves \cup {NamedArray(<<Axis("batch", 2), Axis("hidden", 3)>>),
                 [NamedLeaf EXCEPT !.sharding = NamedSharding(<<StrSpec("data")>>)]}

\* shard_with_axis_mapping(x, mapping) called from thread t, and called again
\* on the value the first call returned
shard_with_axis_mapping_call(t, x, mapping, jit, addressable) ==
    /\ pc[t] = "idle"
    /\ LET first == shard_with_axis_mapping(t, x, mapping, jit, addressable)
           again == shard_with_axis_mapping(t, first.value, mapping, jit, addressable)
       IN  last' = [op |-> "shard_with_axis_mapping", t |-> t, err |-> first.err,
                    x |-> x, mapping |-> mapping, jit |-> jit, cur |-> thread_data[t],
                    first |-> first, again |-> again]
    /\ UNCHANGED <<scopeVars, cacheVars, callVars>>

\* The resolver functions called from both threads, inside and outside scopes
NextResolve ==
    \E t \in Threads :
        \/ \E mapping \in {MapA, MapB} : axis_mapping_enter(t, mapping, FALSE, EmptyDict)
        \/ \E how \in {"return", "raise"} : axis_mapping_exit(t, how)
        \/ \E axis \in Axes, mapping \in SuppliedMappings :
               physical_axis_name_call(t, axis, mapping)
        \/ \E axes \in AxisSelections, mapping \in SuppliedMappings :
               pspec_for_axis_call(t, axes, mapping)
        \/ \E axis \in {Axis(n, 2) : n \in LogicalNames}, mapping \in SuppliedMappings,
              env \in Envs :
               physical_axis_size_call(t, axis, mapping, env)
        \/ \E axis \in Axes, mapping \in SuppliedMappings, env \in Envs :
               round_axis_for_partitioning_call(t, axis, mapping, env)
        \/ \E x \in ShardLeaves, mapping \in SuppliedMappings \ {None}, jit \in BOOLEAN,
              addressable \in BOOLEAN :
               shard_with_axis_mapping_call(t, x, mapping, jit, addressable)

SpecResolve == Init /\ [][NextResolve]_vars

\* ------------------------------------------------------------ properties
\* C1: when an axis_mapping scope exits, by return or by an exception raised
\* inside it, the thread's current mapping is exactly the one that was current
\* immediately before that scope was entered (None included).
C1_ExitRestoresPrevious ==
    last.op = "exit" => thread_data[last.t] = last.before
\* a scope left by an exception, entered over an active mapping it had replaced
C1_Witness ==
    /\ last.op = "exit" /\ last.how = "raise"
    /\ last.before # None /\ last.inside # last.before
    /\ thread_data[last.t] = last.before

\* C2: with merge=True (and no overrides), for a key held by both the new and
\* the previous mapping the scope shows the NEW mapping's value, and for a key
\* held only by the previous mapping it shows the previous value.
C2_MergeNewWins ==
    (last.op = "enter" /\ last.err = "none" /\ last.merge /\ Keys(last.kwargs) = {}) =>
        \A k \in LogicalNames :
            /\ (k \in Keys(last.mapping) /\ k \in Keys(last.old.d)) =>
                   thread_data[last.t].d[k] = last.mapping[k]
            /\ (k \notin Keys(last.mapping) /\ k \in Keys(last.old.d)) =>
                   thread_data[last.t].d[k] = last.old.d[k]

\* C3: every key of the overrides shows the override's value inside the scope,
\* whatever merge, the new mapping and the previous mapping say; with
\* merge=False the scope shows the new mapping and the overrides only.
C3_OverridesOnTop ==
    (last.op = "enter" /\ last.err = "none") =>
        /\ \A k \in Keys(last.kwargs) : thread_data[last.t].d[k] = last.kwargs[k]
        /\ ~last.merge =>
               \A k \in LogicalNames :
                   thread_data[last.t].d[k] =
                       IF k \in Keys(last.kwargs) THEN last.kwargs[k] ELSE last.mapping[k]
\* a merging scope whose override disagrees with both the new and the previous mapping
C3_Witness ==
    /\ last.op = "enter" /\ last.err = "none" /\ last.merge
    /\ \E k \in Keys(last.kwargs) :
           /\ k \in Keys(last.mapping) /\ last.mapping[k] # last.kwargs[k]
           /\ k \in Keys(last.old.d) /\ last.old.d[k] # last.kwargs[k]
           /\ thread_data[last.t].d[k] = last.kwargs[k]

\* C4: a step taken by one thread (entering or leaving a scope included)
\* never changes the mapping another thread reads.
C4_ThreadIsolation ==
    [][\A t \in Threads : last'.t # t => thread_data'[t] = thread_data[t]]_vars
\* the other thread has just tried to enter a scope while this one is inside one
C4_Witness ==
    /\ last.op = "enter" /\ last.t # ImportThread
    /\ Len(old_mapping[ImportThread]) > 0
    /\ thread_data[ImportThread].tag = "dict"
    /\ thread_data[last.t] # thread_data[ImportThread]

\* C5: in a thread with no active scope auto_sharded(x) returns x unchanged
\* and raises nothing.
C5_NoScopeIsNoOp ==
    (last.op = "auto_sharded" /\ old_mapping[last.t] = <<>>) =>
        /\ last.err = "none"
        /\ last.value = last.x
        /\ last.moved = "none"

\* the calls that have got past line 254 hold an output_shape
PastEvalShape == {"infer", "with", "pjit_cache", "dispatch", "finally"}
\* the calls that have got past line 257 hold their resolved placements
PastInfer == {"with", "pjit_cache", "dispatch", "finally"}

\* C6: the number of compilations equals the number of distinct static
\* signatures (function identity, static configuration, argument structure and
\* shapes, resolved placements) that have reached the compiled-dispatch cache;
\* a call with a signature seen before compiles nothing and runs the same
\* executable, a call with a new signature compiles exactly once.
C6_OneCompilationPerSignature ==
    /\ compilations = Cardinality({d.sig : d \in dispatched})
    /\ last.op = "dispatch" => last.compiled = (IF last.seen THEN 0 ELSE 1)
    /\ \A d1, d2 \in dispatched : d1.sig = d2.sig => d1.exe = d2.exe
\* a second call with a signature seen before has compiled nothing
C6_Witness ==
    /\ last.op = "dispatch" /\ last.seen /\ last.compiled = 0
    /\ compilations = 1
    /\ ncalls = 2

C8_CachedShapeIsFresh ==
    \A t \in Threads :
        pc[t] \in PastEvalShape =>
            frame[t].output_shape = filter_eval_shape(frame[t].w.fn, frame[t].cfg, frame[t].x)

\* C9: named_pjit resolves in/out_axis_resources, then axis_resources, then
\* the current mapping (none in a thread with no scope); when that yields no
\* mapping for the inputs or for the outputs it fails with ValueError (the
\* ConfigurationError), and otherwise it returns f with the resolved mappings.
C9_ResolveOrConfigurationError ==
    last.op = "named_pjit" =>
        LET cur == IF thread_data[last.t] = Unset THEN None ELSE thread_data[last.t]
            axis == IF last.given.axis # None THEN last.given.axis ELSE cur
            in == IF last.given.in # None THEN last.given.in ELSE axis
            out == IF last.given.out # None THEN last.given.out ELSE axis
        IN  IF in = None \/ out = None
            THEN last.err = "ValueError"
            ELSE /\ last.err = "none"
                 /\ wrapped.in_axis_resources = in
                 /\ wrapped.out_axis_resources = out

\* C10: a callable wrapped with none of the three mappings given, called
\* inside a scope, gets its input placements from the mapping of that scope.
C10_PlacementsFromCallScope ==
    \A t \in Threads :
        (pc[t] \in PastInfer /\ frame[t].w.scoped /\ frame[t].caller.tag = "dict") =>
            frame[t].in_resources.reserved.x =
                [kind |-> "named",
                 pspec |-> [i \in 1..Len(frame[t].x.axes) |->
                               frame[t].caller.d[frame[t].x.axes[i].name]],
                 axes |-> frame[t].x.axes]

\* the mapping a resolver call is to answer from: the supplied one, or, when
\* none is supplied, the calling thread's current mapping (no entries when
\* there is none)
AnswersFrom(mapping, cur) ==
    IF mapping.tag = "dict" THEN mapping.d
    ELSE IF cur.tag = "dict" THEN cur.d ELSE EmptyDict

\* C11: pspec_for_axis(axes, mapping) returns one entry per axis, in the same
\* order; entry i is the mapping's physical spec for the name of axis i, and
\* none (replicate) when the mapping has no entry for that name.
C11_OneEntryPerAxis ==
    last.op = "pspec_for_axis" =>
        /\ last.err = "none"
        /\ Len(last.value) = Len(last.axes)
        /\ \A i \in 1..Len(last.axes) :
               last.value[i] = AnswersFrom(last.mapping, last.cur)[last.axes[i].name]

\* C12: physical_axis_name(axis, mapping) with a mapping supplied (an empty one
\* included) returns that mapping's entry for the axis name, or none when it has
\* no such entry, whatever the thread's current mapping is.
C12_SuppliedMappingAlone ==
    (last.op = "physical_axis_name" /\ last.mapping.tag = "dict") =>
        /\ last.err = "none"
        /\ last.value = last.mapping.d[last.axis.name]

\* whether the mesh of env has every physical axis of spec
InMesh(spec, env) ==
    env.kind = "mesh" /\ \A i \in 1..Len(spec.names) : spec.names[i] \in DOMAIN env.shape

\* C13: physical_axis_size(axis, mapping) under a mesh returns the product of
\* the mesh sizes of the physical axes the mapping gives for the axis name (a
\* single name counting as a sequence of one), and none when the mapping has no
\* entry for the name.
C13_ProductOfMeshSizes ==
    last.op = "physical_axis_size" =>
        LET spec == AnswersFrom(last.mapping, last.cur)[last.axis.name]
        IN  /\ (spec = NoneSpec /\ last.env.kind = "mesh") =>
                   (last.err = "none" /\ last.value.isnone)
            /\ (spec # NoneSpec /\ InMesh(spec, last.env)) =>
                   /\ last.err = "none" /\ ~last.value.isnone
                   /\ last.value.size = prod(last.env.shape, spec.names)

\* C14: round_axis_for_partitioning(axis, mapping) never raises; for an axis the
\* mapping has no entry for it returns the axis unchanged; for a mapped axis of
\* physical size p it returns an axis of the same name whose size is the
\* smallest multiple of p that is at least axis.size.
C14_RoundsUpNeverFails ==
    last.op = "round_axis_for_partitioning" =>
        LET spec == AnswersFrom(last.mapping, last.cur)[last.axis.name]
        IN  /\ last.err = "none"
            /\ spec = NoneSpec => last.value = last.axis
            /\ (spec # NoneSpec /\ InMesh(spec, last.env)) =>
                   LET p == prod(last.env.shape, spec.names)
                   IN  /\ last.value.name = last.axis.name
                       /\ last.value.size % p = 0
                       /\ last.value.size >= last.axis.size
                       /\ last.value.size < last.axis.size + p

\* C17: outside a jit context, shard_with_axis_mapping applied to the value a
\* first application returned returns that value unchanged and moves no data
\* (neither device_put nor make_array_from_callback); a leaf that is not a
\* NamedArray comes back unchanged from both applications.
C17_EagerIdempotent ==
    (last.op = "shard_with_axis_mapping" /\ ~last.jit /\ last.first.err = "none") =>
        /\ last.again.err = "none"
        /\ last.again.value = last.first.value
        /\ last.again.moved = "none"
        /\ ~is_named_array(last.x) =>
               (last.first.value = last.x /\ last.first.moved = "none")
\* a NamedArray the first application had to move, left alone by the second
C17_Witness ==
    /\ last.op = "shard_with_axis_mapping" /\ ~last.jit /\ last.first.err = "none"
    /\ is_named_array(last.x)
    /\ last.first.moved \in {"device_put", "make_array_from_callback"}
    /\ last.first.value # last.x
    /\ last.again.moved = "none"

\* whether the donation flags f was wrapped with line up with a call's
\* arguments: a tuple of flags as long as the positional arguments, and no
\* key of donate_kwargs that is not a keyword argument of the call
Aligned(f, kwargs) ==
    /\ f.donate_args.tag = "tuple" => Len(f.donate_args.flags) = NArgs
    /\ f.donate_kwargs.tag = "dict" => f.donate_kwargs.keys \subseteq KwKeys(kwargs)

\* C15: a call whose donation flags do not line up with its arguments
\* (donate_args of another length than the positional arguments, or a key of
\* donate_kwargs that is not a keyword argument of the call) raises instead of
\* executing: no call that got past lines 236-250 is misaligned.
C15_MisalignedDonationFails ==
    \A t \in Threads : pc[t] # "idle" => Aligned(frame[t].w, frame[t].kwargs)

\* C16: a leaf is in dynamic_donated only if its argument was declared donated;
\* with neither donate_args nor donate_kwargs nothing is donated, with only one
\* of them every argument of the other kind is reserved, and a keyword argument
\* missing from donate_kwargs is reserved.
C16_DonationDefaultsFalse ==
    \A t \in Threads :
        pc[t] # "idle" =>
            LET f == frame[t].w
                donated == frame[t].dynamic_donated
                reserved == frame[t].dynamic_reserved
            IN  /\ donated.x # NoLeaf =>
                       \/ f.donate_args.tag = "bool" /\ f.donate_args.flags[1]
                       \/ f.donate_args.tag = "tuple" /\ f.donate_args.flags[2]
                /\ \A k \in KwNames :
                       donated.kwargs[k] # NoLeaf =>
                           /\ f.donate_kwargs.tag = "dict"
                           /\ k \in f.donate_kwargs.keys /\ k \in f.donate_kwargs.donated
                /\ (f.donate_args.tag = "none" /\ f.donate_kwargs.tag = "none") =>
                       (donated = AllNone(donated)
                        /\ reserved = DynamicTree(f.fn, frame[t].x, frame[t].kwargs))
                /\ f.donate_args.tag = "none" => reserved.x = frame[t].x
                /\ \A k \in KwKeys(frame[t].kwargs) :
                       (f.donate_kwargs.tag = "none" \/ k \notin f.donate_kwargs.keys) =>
                           reserved.kwargs[k] = frame[t].kwargs[k]
\* a call with donate_args given whose keyword argument is missing from
\* donate_kwargs: x is donated, the keyword argument is reserved
C16_Witness ==
    \E t \in Threads :
        /\ pc[t] # "idle"
        /\ frame[t].w.donate_kwargs.tag = "dict" /\ frame[t].w.donate_kwargs.keys # {}
        /\ \E k \in KwKeys(frame[t].kwargs) :
               /\ k \notin frame[t].w.donate_kwargs.keys
               /\ frame[t].dynamic_reserved.kwargs[k] = frame[t].kwargs[k]
               /\ frame[t].dynamic_donated.kwargs[k] = NoLeaf
        /\ frame[t].dynamic_donated.x = frame[t].x
        /\ frame[t].dynamic_reserved.x = NoLeaf

\* C18: no step removes or changes an entry of _eval_shape_cache or of the
\* compile cache of _named_pjit_cache: every entry present before a step is
\* present, with the same value, after it, so entries are only ever added, and
\* only under keys that had none.
C18_NeverEvicts ==
    [][/\ \A e \in eval_shape_cache : e \in eval_shape_cache'
       /\ \A e \in named_pjit_cache : e \in named_pjit_cache']_vars

\* C19: when a call of a wrapped callable ends while another thread is inside
\* a call of the same callable with the same arguments, it has completed (only
\* the backend may have failed it), its shape skeleton is the one an uncached
\* inference gives for its arguments, and _eval_shape_cache holds exactly one
\* entry under its key.
C19_ConcurrentSameSignature ==
    (/\ last.op = "return" /\ last.reached # "partition"
     /\ \E u \in Threads \ {last.t} : pc[u] # "idle" /\ CallOf(frame[u]) = last.call) =>
        /\ last.err \in {"none", "BackendExecutionError"}
        /\ last.output_shape =
               filter_eval_shape(last.call.w.fn, last.call.cfg, last.call.x)
        /\ Cardinality({e \in eval_shape_cache :
                           e.key = EvalShapeKey(last.call.w.fn, last.call.cfg, last.call.x,
                                                last.call.kwargs)}) = 1

\* the steps of a call that run inside the with block of line 262
InsideWith == {"pjit_cache", "dispatch", "finally"}

\* C20 (as claimed): while the cache lookup, the compilation and the execution
\* of a wrapped call run, the thread's current mapping is the resolved
\* axis_resources, and when the call returns or raises the thread's current
\* mapping is what it was before the call.
C20_ScopeIsResolvedAxisResources ==
    /\ \A t \in Threads :
           pc[t] \in InsideWith => thread_data[t] = frame[t].w.axis_resources
    /\ last.op = "return" => thread_data[last.t] = last.caller
\* C20 (amended): inside the with block the thread's current mapping is a dict:
\* the resolved axis_resources alone, not merged with the caller's scope, and
\* the empty dict when axis_resources resolved to None; when the call returns
\* or raises (a backend error, or an error before the block is entered) the
\* thread's current mapping is what it was before the call.
C20_ScopeIsAxisResourcesOrEmpty ==
    /\ \A t \in Threads :
           pc[t] \in InsideWith =>
               thread_data[t] = Some(IF frame[t].w.axis_resources = None THEN EmptyDict
                                     ELSE frame[t].w.axis_resources.d)
    /\ last.op = "return" => thread_data[last.t] = last.caller
\* a call made inside a scope other than its axis_resources has ended with a
\* backend error, and the caller's scope is back
C20_Witness ==
    /\ last.op = "return" /\ last.reached = "finally"
    /\ last.err = "BackendExecutionError"
    /\ last.caller.tag = "dict"
    /\ last.call.w.axis_resources.tag = "dict"
    /\ last.caller # last.call.w.axis_resources
    /\ last.before = last.caller
    /\ thread_data[last.t] = last.caller

\* the leaf positions of a dynamic tree: the callable's own leaf, the positional
\* array argument, the keyword arguments
LeafAt(tree, p) == IF p = "fun" THEN tree.fun ELSE IF p = "x" THEN tree.x ELSE tree.kwargs[p]
LeafPositions == {"fun", "x"} \cup KwNames

\* C21: in every wrapped call dynamic_donated and dynamic_reserved partition
\* the dynamic part: each array leaf is in exactly one of the two and None in
\* the other (a position with no array is None in both), the array leaf of the
\* wrapped callable itself is in dynamic_reserved and never donated, combining
\* the two gives back the dynamic part, and that is the tree fun_wrapped
\* has recombined once the executable has run.
C21_DonatedReservedPartition ==
    \A t \in Threads :
        pc[t] # "idle" =>
            LET dynamic == DynamicTree(frame[t].w.fn, frame[t].x, frame[t].kwargs)
                donated == frame[t].dynamic_donated
                reserved == frame[t].dynamic_reserved
            IN  /\ \A p \in LeafPositions :
                       \/ /\ LeafAt(donated, p) = LeafAt(dynamic, p)
                          /\ LeafAt(reserved, p) = NoLeaf
                       \/ /\ LeafAt(reserved, p) = LeafAt(dynamic, p)
                          /\ LeafAt(donated, p) = NoLeaf
                /\ donated.fun = NoLeaf
                /\ reserved.fun = dynamic_fun(frame[t].w.fn)
                /\ eqx_combine(donated, reserved) = dynamic
                /\ pc[t] = "finally" => frame[t].dynamic = dynamic
\* a call of a callable that holds an array has run with its positional array
\* donated and its keyword argument reserved: the callable's array was reserved
\* and fun_wrapped recombined all three
C21_Witness ==
    \E t \in Threads :
        /\ pc[t] = "finally"
        /\ dynamic_fun(frame[t].w.fn) # NoLeaf
        /\ frame[t].dynamic_reserved.fun = dynamic_fun(frame[t].w.fn)
        /\ frame[t].dynamic_donated.x = frame[t].x
        /\ frame[t].dynamic_reserved.x = NoLeaf
        /\ \E k \in KwKeys(frame[t].kwargs) :
               /\ frame[t].dynamic_reserved.kwargs[k] = frame[t].kwargs[k]
               /\ frame[t].dynamic_donated.kwargs[k] = NoLeaf
        /\ frame[t].dynamic = DynamicTree(frame[t].w.fn, frame[t].x, frame[t].kwargs)
====
